---- MODULE Spec2Model ----
(***************************************************************************)
(* State-machine model of src/number_theory/prime.h (tql number theory):   *)
(* the Sieve of Eratosthenes (class Sieve), the linear sieve (class        *)
(* EulerSieve) with its queries, and the coprime pair enumerator           *)
(* coprime_pairs.  The classes are templates over an integer type T; the   *)
(* model instantiates T with int8_t, uint8_t and uint64_t.                 *)
(***************************************************************************)
EXTENDS Integers, Sequences, FiniteSets, TLC

VARIABLES
  T,                  \* the template argument of Sieve<T> / EulerSieve<T>
  num_limit,          \* num_limit_ (both classes), as a 64-bit limb vector
  pc,                 \* position of the running constructor / query phase
  is_prime_,          \* Sieve::is_prime_      (index -> flag)
  s_i, s_j,           \* loop counters i and j of Sieve::Sieve (uint64_t)
  s_oob,              \* a write of Sieve::Sieve went past the end of is_prime_
  mpf_size,           \* number of entries of EulerSieve::min_prime_factor_
  min_prime_factor_,  \* EulerSieve::min_prime_factor_ (index -> T)
  primes_,            \* EulerSieve::primes_
  num,                \* loop counter of EulerSieve::EulerSieve (type T)
  pidx,               \* position of the range-for over primes_
  writes,             \* history: number of assignments to each factor entry
  visits,             \* history: number of times the scan body ran for each n
  wraps,              \* history: number of times ++num wrapped around
  qry,                \* the last query made and its outcome (val: the factor
                      \* returned, flag: the truth value returned)
  cp_limit,           \* coprime_pairs: the argument num_limit
  cp_pc,              \* coprime_pairs: position
  pairs,              \* coprime_pairs: the vector |pairs|
  visited             \* coprime_pairs: the read cursor |visited|

sieve_vars == <<T, num_limit, pc, is_prime_, s_i, s_j, s_oob, mpf_size,
                min_prime_factor_, primes_, num, pidx, writes, visits, wraps, qry>>
cp_vars == <<cp_limit, cp_pc, pairs, visited>>
vars == <<sieve_vars, cp_vars>>

---------------------------------------------------------------------------
(* Bounds of the model.                                                    *)

\* Largest "ordinary" limit the sieves are built for.
MaxLimit == 30
\* Number of times the scan counter of EulerSieve may wrap before the model
\* stops following the (then endless) loop.
MaxWraps == 1
\* Largest limit coprime_pairs is called with.
MaxPairLimit == 13
\* Number of negative limits coprime_pairs is called with.
MaxNegLimit == 2

---------------------------------------------------------------------------
(* Integer types.                                                          *)

\* std::numeric_limits<MultType>::digits, MultType = uint64_t.
MultTypeDigits == 64

Types == {"int8_t", "uint8_t", "uint64_t"}
IsSigned(t) == t = "int8_t"
SizeOf(t) == IF t = "uint64_t" THEN 8 ELSE 1
IsNarrow(t) == SizeOf(t) = 1
\* Largest and smallest value of the 8-bit types.
TMax(t) == IF IsSigned(t) THEN 2^7 - 1 ELSE 2^8 - 1
TMin(t) == IF IsSigned(t) THEN -(2^7) ELSE 0

\* ++num on a T: modular for the 8-bit types (the int result of the promoted
\* increment is converted back to T).  For uint64_t the counter stays far
\* below 2^64 in every run of the model.
Increment(t, n) == IF IsNarrow(t) /\ n = TMax(t) THEN TMin(t) ELSE n + 1

\* 64-bit quantities (num_limit, size_t sizes) are vectors of four 16-bit
\* limbs, least significant first, so that limits of 2^32 and more can be
\* represented.
LimbBase == 2^16
LimbIdx == 1..(MultTypeDigits \div 16)
ToLimbs(n) == [i \in LimbIdx |-> IF i = 1 THEN n % LimbBase
                                 ELSE IF i = 2 THEN (n \div LimbBase) % LimbBase
                                 ELSE 0]
Small(l) == \A i \in LimbIdx : i > 1 => l[i] = 0
FromLimbs(l) == l[1] + LimbBase * l[2]
Pow2Limbs(k) == [i \in LimbIdx |-> IF i = (k \div 16) + 1 THEN 2^(k % 16) ELSE 0]
\* 2^64 - 1: the largest size_t / uint64_t.
SizeMax == [i \in LimbIdx |-> LimbBase - 1]
\* l + 1 modulo 2^64.
AddOne(l) == [i \in LimbIdx |->
                IF \A j \in 1..(i - 1) : l[j] = LimbBase - 1
                THEN (l[i] + 1) % LimbBase ELSE l[i]]
LimbsGreater(a, b) ==
  \E i \in LimbIdx : a[i] > b[i] /\ \A j \in LimbIdx : j > i => a[j] = b[j]
RECURSIVE DivRem(_, _, _)
DivRem(l, d, i) ==
  IF i > MultTypeDigits \div 16 THEN 0 ELSE (DivRem(l, d, i + 1) * LimbBase + l[i]) % d
\* l \div d for a small divisor d.
DivSmall(l, d) ==
  [i \in LimbIdx |-> (DivRem(l, d, i + 1) * LimbBase + l[i]) \div d]

RECURSIVE BitWidthNat(_)
BitWidthNat(x) == IF x = 0 THEN 0 ELSE 1 + BitWidthNat(x \div 2)
\* std::bit_width of a 64-bit unsigned value.
bit_width(l) ==
  IF \A i \in LimbIdx : l[i] = 0 THEN 0
  ELSE LET top == CHOOSE i \in LimbIdx :
                    l[i] # 0 /\ \A j \in LimbIdx : j > i => l[j] = 0
       IN 16 * (top - 1) + BitWidthNat(l[top])

\* numeric_cast<size_t>(v) of number_theory/utility.h for a non-negative v of
\* at most 64 bits: the value, when size_t can hold it.
numeric_cast_size_t(l) == [ok |-> bit_width(l) <= MultTypeDigits, val |-> l]

\* unsigned_abs of number_theory/utility.h: the magnitude of n as a value of
\* the unsigned type of the same width (also for the most negative n).
unsigned_abs(n) == IF n < 0 THEN 0 - n ELSE n

\* std::vector<T>(n): std::allocator<T>::allocate(n) cannot provide more than
\* SIZE_MAX / sizeof(T) elements; the constructor then leaves by an exception
\* (std::length_error or std::bad_array_new_length).
vector_alloc_ok(n, t) == ~LimbsGreater(n, DivSmall(SizeMax, SizeOf(t)))

Limit == FromLimbs(num_limit)

---------------------------------------------------------------------------
(* Inputs.                                                                 *)

\* Limits of 2^32 - 1 (the widest that passes the overflow guard), 2^32,
\* 2^62 and 2^64 - 1.
BigLimits == {[i \in LimbIdx |-> IF i <= 2 THEN LimbBase - 1 ELSE 0],
              Pow2Limbs(32), Pow2Limbs(62), SizeMax}
Limits(t) ==
  {ToLimbs(n) : n \in 0..MaxLimit}
    \cup (IF t = "uint8_t" THEN {ToLimbs(TMax(t))} ELSE {})
    \cup (IF t = "uint64_t" THEN BigLimits ELSE {})
\* Query arguments: everything around the limits, and the extremes of the
\* 8-bit types.
QueryArgs(t) ==
  IF IsNarrow(t)
  THEN {n \in (0 - (MaxLimit + 2))..(MaxLimit + 2) : n >= TMin(t)}
         \cup {TMin(t), TMin(t) + 1, TMax(t)}
  ELSE 0..(MaxLimit + 2)

NoQuery == [fn |-> "none", arg |-> 0, out |-> "none", val |-> 0, flag |-> FALSE]

SieveInit ==
  /\ T \in Types
  /\ num_limit \in Limits(T)
  /\ pc = IF Small(num_limit) THEN "s_alloc" ELSE "e_init"
  /\ is_prime_ = <<>>
  /\ s_i = 0 /\ s_j = 0
  /\ s_oob = FALSE
  /\ mpf_size = ToLimbs(0)
  /\ min_prime_factor_ = <<>>
  /\ primes_ = <<>>
  /\ num = 0
  /\ pidx = 0
  /\ writes = <<>>
  /\ visits = <<>>
  /\ wraps = 0
  /\ qry = NoQuery

---------------------------------------------------------------------------
(* Sieve<T>::Sieve, lines 33-48.                                           *)

\* Member initialisers: num_limit_(num_limit), is_prime_(num_limit + 1, true).
SieveAlloc ==
  /\ UNCHANGED cp_vars
  /\ pc = "s_alloc"
  /\ numeric_cast_size_t(num_limit).ok
  /\ is_prime_' = [k \in 0..Limit |-> TRUE]
  /\ pc' = "s_clear0"
  /\ UNCHANGED <<T, num_limit, s_i, s_j, s_oob, mpf_size, min_prime_factor_,
                 primes_, num, pidx, writes, visits, wraps, qry>>

\* is_prime_[k] = false.  A k past the end of the vector is an out-of-bounds
\* write: the element storage of vector<bool> is a whole word, so the write
\* either lands in its unused bits (no flag changes) or, in a build with
\* container assertions, aborts the program.
SieveWrite(k, next) ==
  IF k \in DOMAIN is_prime_
  THEN /\ is_prime_' = [is_prime_ EXCEPT ![k] = FALSE]
       /\ pc' = next
       /\ UNCHANGED s_oob
  ELSE /\ s_oob' = TRUE
       /\ pc' \in {next, "aborted"}
       /\ UNCHANGED is_prime_

SieveClear0 ==
  /\ UNCHANGED cp_vars
  /\ pc = "s_clear0"
  /\ SieveWrite(0, "s_clear1")
  /\ UNCHANGED <<T, num_limit, s_i, s_j, mpf_size, min_prime_factor_,
                 primes_, num, pidx, writes, visits, wraps, qry>>

SieveClear1 ==
  /\ UNCHANGED cp_vars
  /\ pc = "s_clear1"
  /\ SieveWrite(1, "s_outer")
  /\ s_i' = 2
  /\ UNCHANGED <<T, num_limit, s_j, mpf_size, min_prime_factor_,
                 primes_, num, pidx, writes, visits, wraps, qry>>

\* Striking from i itself.
StrikeStart_FromI(i) == i
\* First multiple of i that is struck: j = i * i.
StrikeStart(i) == i * i

\* for (i = 2; i * i <= num_limit; ++i) { if (!is_prime_[i]) continue; j = i*i
SieveOuter ==
  /\ UNCHANGED cp_vars
  /\ pc = "s_outer"
  /\ IF s_i * s_i <= Limit
     THEN IF ~is_prime_[s_i]
          THEN /\ s_i' = s_i + 1
               /\ UNCHANGED <<s_j, pc>>
          ELSE /\ s_j' = StrikeStart(s_i)
               /\ pc' = "s_inner"
               /\ UNCHANGED s_i
     ELSE /\ pc' = "e_init"
          /\ UNCHANGED <<s_i, s_j>>
  /\ UNCHANGED <<T, num_limit, is_prime_, s_oob, mpf_size, min_prime_factor_,
                 primes_, num, pidx, writes, visits, wraps, qry>>

\* for (j = i * i; j <= num_limit; j += i) is_prime_[j] = false;
SieveInner ==
  /\ UNCHANGED cp_vars
  /\ pc = "s_inner"
  /\ IF s_j <= Limit
     THEN /\ SieveWrite(s_j, "s_inner")
          /\ s_j' = s_j + s_i
          /\ UNCHANGED s_i
     ELSE /\ s_i' = s_i + 1
          /\ pc' = "s_outer"
          /\ UNCHANGED <<s_j, is_prime_, s_oob>>
  /\ UNCHANGED <<T, num_limit, mpf_size, min_prime_factor_,
                 primes_, num, pidx, writes, visits, wraps, qry>>

\* Sieve::is_prime(number), lines 59-65.
Sieve_is_prime(n) ==
  IF n < 0 THEN [out |-> "value", val |-> FALSE]
  ELSE IF n > Limit THEN [out |-> "out_of_range", val |-> FALSE]
  ELSE [out |-> "value", val |-> is_prime_[n]]

---------------------------------------------------------------------------
(* EulerSieve<T>::EulerSieve, lines 86-105.                                *)

\* Member initialisers (lines 87-88): num_limit_(num_limit) and
\* min_prime_factor_(numeric_cast<size_t>(num_limit) + 1), a vector of that
\* many value-initialised (zero) entries.  This runs before the body of the
\* constructor, hence before check_overflow().  The contents of a vector too
\* long to enumerate are not materialised: only its size is kept.
EulerInit ==
  /\ UNCHANGED cp_vars
  /\ pc = "e_init"
  /\ numeric_cast_size_t(num_limit).ok
  /\ LET size == AddOne(numeric_cast_size_t(num_limit).val)
         zeros == IF Small(size) THEN [k \in 0..(FromLimbs(size) - 1) |-> 0]
                  ELSE <<>>
     IN IF vector_alloc_ok(size, T)
        THEN /\ mpf_size' = size
             /\ min_prime_factor_' = zeros
             /\ writes' = zeros
             /\ visits' = zeros
             /\ pc' = "e_check"
        ELSE /\ pc' = "alloc_error"
             /\ UNCHANGED <<mpf_size, min_prime_factor_, writes, visits>>
  /\ UNCHANGED <<T, num_limit, is_prime_, s_i, s_j, s_oob, primes_, num, pidx,
                 wraps, qry>>

\* check_overflow(), lines 143-150: the bit width of the limit (as an unsigned
\* value of T's width; limits are non-negative here), doubled, against the
\* digits of MultType.
WillOverflow(l) == bit_width(l) * 2 > MultTypeDigits

EulerCheckOverflow ==
  /\ UNCHANGED cp_vars
  /\ pc = "e_check"
  /\ IF WillOverflow(num_limit)
     THEN /\ pc' = "overflow_error"
          /\ UNCHANGED num
     ELSE /\ pc' = "e_outer"
          /\ num' = 2
  /\ UNCHANGED <<T, num_limit, is_prime_, s_i, s_j, s_oob, mpf_size,
                 min_prime_factor_, primes_, pidx, writes, visits, wraps, qry>>

\* Head of the scan, lines 91-95: the loop test and the prime case.  A limit
\* of 2^16 or more is outside what the model scans.
EulerOuter ==
  /\ UNCHANGED cp_vars
  /\ pc = "e_outer"
  /\ Small(num_limit)
  /\ IF num <= Limit
     THEN /\ visits' = [visits EXCEPT ![num] = @ + 1]
          /\ IF min_prime_factor_[num] = 0
             THEN /\ primes_' = Append(primes_, num)
                  /\ min_prime_factor_' = [min_prime_factor_ EXCEPT ![num] = num]
                  /\ writes' = [writes EXCEPT ![num] = @ + 1]
             ELSE UNCHANGED <<primes_, min_prime_factor_, writes>>
          /\ pidx' = 1
          /\ pc' = "e_inner"
     ELSE /\ pc' = "done"
          /\ UNCHANGED <<visits, primes_, min_prime_factor_, writes, pidx>>
  /\ UNCHANGED <<T, num_limit, is_prime_, s_i, s_j, s_oob, mpf_size, num,
                 wraps, qry>>

\* A break that comes one prime too early.
PrimeExceeds_Early(prime, n) == prime >= min_prime_factor_[n]
\* Line 97: if (prime > min_prime_factor_[num]) break;
PrimeExceeds(prime, n) == prime > min_prime_factor_[n]
\* Line 100: if (x > num_limit_) break;
ProductExceeds(x) == x > Limit

\* One round of the range-for over primes_, lines 96-103, and, when it
\* ends, the ++num of line 91.
EulerInner ==
  /\ UNCHANGED cp_vars
  /\ pc = "e_inner"
  /\ IF \/ pidx > Len(primes_)
        \/ PrimeExceeds(primes_[pidx], num)
        \/ ProductExceeds(primes_[pidx] * num)
     THEN /\ (IsNarrow(T) /\ num = TMax(T)) => wraps < MaxWraps
          /\ num' = Increment(T, num)
          /\ wraps' = IF IsNarrow(T) /\ num = TMax(T) THEN wraps + 1 ELSE wraps
          /\ pc' = "e_outer"
          /\ UNCHANGED <<min_prime_factor_, writes, pidx>>
     ELSE /\ LET prime == primes_[pidx]
                 x == prime * num
             IN /\ min_prime_factor_' = [min_prime_factor_ EXCEPT ![x] = prime]
                /\ writes' = [writes EXCEPT ![x] = @ + 1]
          /\ pidx' = pidx + 1
          /\ UNCHANGED <<num, wraps, pc>>
  /\ UNCHANGED <<T, num_limit, is_prime_, s_i, s_j, s_oob, mpf_size, primes_,
                 visits, qry>>

\* The two range checks in the other order.
Euler_min_prime_factor_Swapped(n) ==
  LET abs_num == unsigned_abs(n)
  IN IF abs_num > Limit THEN [out |-> "out_of_range", val |-> 0]
     ELSE IF abs_num <= 1 THEN [out |-> "domain_error", val |-> 0]
     ELSE [out |-> "value", val |-> min_prime_factor_[abs_num]]
\* EulerSieve::min_prime_factor(number), lines 120-127.
Euler_min_prime_factor(n) ==
  LET abs_num == unsigned_abs(n)
  IN IF abs_num <= 1 THEN [out |-> "domain_error", val |-> 0]
     ELSE IF abs_num > Limit THEN [out |-> "out_of_range", val |-> 0]
     ELSE [out |-> "value", val |-> min_prime_factor_[abs_num]]

\* EulerSieve::primes(), line 116.
primes == primes_

---------------------------------------------------------------------------
(* Queries on the constructed sieves.                                      *)

QueryIsPrime ==
  /\ UNCHANGED cp_vars
  /\ pc = "done"
  /\ \E n \in QueryArgs(T) :
       qry' = [fn |-> "is_prime", arg |-> n, out |-> Sieve_is_prime(n).out,
               val |-> 0, flag |-> Sieve_is_prime(n).val]
  /\ UNCHANGED <<T, num_limit, pc, is_prime_, s_i, s_j, s_oob, mpf_size,
                 min_prime_factor_, primes_, num, pidx, writes, visits, wraps>>

QueryMinPrimeFactor ==
  /\ UNCHANGED cp_vars
  /\ pc = "done"
  /\ \E n \in QueryArgs(T) :
       qry' = [fn |-> "min_prime_factor", arg |-> n,
               out |-> Euler_min_prime_factor(n).out,
               val |-> Euler_min_prime_factor(n).val, flag |-> FALSE]
  /\ UNCHANGED <<T, num_limit, pc, is_prime_, s_i, s_j, s_oob, mpf_size,
                 min_prime_factor_, primes_, num, pidx, writes, visits, wraps>>

---------------------------------------------------------------------------
(* coprime_pairs<T>(num_limit), lines 156-188.                             *)

\* static_cast<T>(x) of a uint64_t x, for the 8-bit types: x modulo 2^8,
\* read in T's range.
static_cast_T(t, x) == ((x - TMin(t)) % (2^8)) + TMin(t)

\* A test that lets one more value through.
WithinLimit_OffByOne(x) == x <= cp_limit + 1
\* The test of add_pair, line 167: x <= num_limit_u64.
WithinLimit(x) == x <= cp_limit

\* add_pair(x, y), lines 166-170, on the vector ps.
add_pair(ps, x, y) ==
  IF WithinLimit(x)
  THEN Append(ps, <<static_cast_T(T, x), static_cast_T(T, y)>>)
  ELSE ps

\* A third child of (x + y, y).
Children_Wrong(x, y) == << <<2 * x - y, x>>, <<2 * x + y, x>>, <<x + y, y>> >>
\* The three children of (x, y), lines 181-183, in uint64_t arithmetic (x > y
\* on every entry, and the values stay far below 2^64).
Children(x, y) == << <<2 * x - y, x>>, <<2 * x + y, x>>, <<x + 2 * y, y>> >>

CoprimeIdle ==
  /\ cp_limit = 0
  /\ cp_pc = "idle"
  /\ pairs = <<>>
  /\ visited = 0

SieveIdle ==
  /\ num_limit = ToLimbs(0)
  /\ pc = "idle"
  /\ is_prime_ = <<>>
  /\ s_i = 0 /\ s_j = 0
  /\ s_oob = FALSE
  /\ mpf_size = ToLimbs(0)
  /\ min_prime_factor_ = <<>>
  /\ primes_ = <<>>
  /\ num = 0
  /\ pidx = 0
  /\ writes = <<>>
  /\ visits = <<>>
  /\ wraps = 0
  /\ qry = NoQuery

CoprimeInit ==
  /\ T \in {"int8_t", "uint8_t"}
  /\ cp_limit \in (IF IsSigned(T) THEN 0 - MaxNegLimit ELSE 0)..MaxPairLimit
  /\ cp_pc = "call"
  /\ pairs = <<>>
  /\ visited = 0
  /\ SieveIdle

\* Lines 159-176: the early return, the two seeds, visited = 0.
CoprimeEnter ==
  /\ UNCHANGED sieve_vars
  /\ cp_pc = "call"
  /\ IF cp_limit <= 0
     THEN /\ cp_pc' = "done"
          /\ UNCHANGED pairs
     ELSE /\ pairs' = add_pair(add_pair(pairs, 2, 1), 3, 1)
          /\ cp_pc' = "loop"
  /\ visited' = 0
  /\ UNCHANGED cp_limit

\* One round of the while loop, lines 177-184.
CoprimeLoop ==
  /\ UNCHANGED sieve_vars
  /\ cp_pc = "loop"
  /\ visited < Len(pairs)
  /\ LET current == pairs[visited + 1]
         c == Children(current[1], current[2])
     IN pairs' = add_pair(add_pair(add_pair(pairs, c[1][1], c[1][2]),
                                   c[2][1], c[2][2]), c[3][1], c[3][2])
  /\ visited' = visited + 1
  /\ UNCHANGED <<cp_limit, cp_pc>>

\* The loop test fails; lines 185-187.
CoprimeFinish ==
  /\ UNCHANGED sieve_vars
  /\ cp_pc = "loop"
  /\ ~(visited < Len(pairs))
  /\ pairs' = add_pair(add_pair(pairs, 1, 0), 1, 1)
  /\ cp_pc' = "done"
  /\ UNCHANGED <<cp_limit, visited>>

CoprimeNext ==
  \/ CoprimeEnter
  \/ CoprimeLoop
  \/ CoprimeFinish

\* The function runs to completion once called: the code is sequential and
\* nothing can suspend it.
CoprimeSpec == CoprimeInit /\ [][CoprimeNext]_vars /\ WF_vars(CoprimeNext)

---------------------------------------------------------------------------

Init == SieveInit /\ CoprimeIdle

Next ==
  \/ SieveAlloc
  \/ SieveClear0
  \/ SieveClear1
  \/ SieveOuter
  \/ SieveInner
  \/ EulerInit
  \/ EulerCheckOverflow
  \/ EulerOuter
  \/ EulerInner
  \/ QueryIsPrime
  \/ QueryMinPrimeFactor

Spec == Init /\ [][Next]_vars

---------------------------------------------------------------------------
(* Arithmetic the properties are stated with.                              *)

Divides(d, n) == n % d = 0
IsPrimeNumber(p) == p >= 2 /\ \A d \in 2..(p - 1) : ~Divides(d, p)
RECURSIVE GCD(_, _)
GCD(a, b) == IF b = 0 THEN a ELSE GCD(b, a % b)
Range(f) == {f[k] : k \in DOMAIN f}
StrictlyAscending(q) == \A k \in 1..(Len(q) - 1) : q[k] < q[k + 1]

\* The scan of EulerSieve's constructor is under way or over.
Scanning == pc \in {"e_outer", "e_inner", "done"} /\ Small(num_limit)
\* The number the scan has last dealt with completely.
LastScanned ==
  IF pc = "done" THEN Limit
  ELSE IF IsNarrow(T) /\ num = TMin(T) THEN TMax(T)
  ELSE num - 1

---------------------------------------------------------------------------
(* The Euler sieve.                                                        *)

\* C1: on a constructed EulerSieve(L), for every n in [2, L],
\* min_prime_factor(n) returns a prime p that divides n, and no d with
\* 2 <= d < p divides n.
C1_LeastPrimeFactor ==
  pc = "done" =>
    \A n \in 2..Limit :
      LET r == Euler_min_prime_factor(n)
      IN /\ r.out = "value"
         /\ IsPrimeNumber(r.val)
         /\ Divides(r.val, n)
         /\ \A d \in 2..(r.val - 1) : ~Divides(d, n)

\* A sieve of limit 15 or more answered the query for a composite number.
C1_Witness ==
  /\ pc = "done" /\ Limit >= 15
  /\ qry.fn = "min_prime_factor" /\ qry.out = "value"
  /\ qry.arg >= 15 /\ qry.val < qry.arg /\ qry.val > 2

\* C2: at the head of every round of the scan, and once the sieve is
\* constructed, primes_ is strictly ascending and its elements are exactly the
\* n in [2, k] with min_prime_factor_[n] = n, k being the number last scanned
\* (L once constructed).
C2_PrimesList ==
  (pc \in {"e_outer", "done"} /\ Small(num_limit)) =>
    /\ StrictlyAscending(primes)
    /\ Range(primes) = {n \in 2..LastScanned : min_prime_factor_[n] = n}

\* C7: over the build, no factor entry is assigned twice, entries 0 and 1
\* are never assigned, an assigned entry m holds the least prime factor of m
\* (m itself for a prime), and at the end every m in [2, L] was assigned once.
C7_WrittenOnce ==
  Scanning =>
    /\ \A m \in DOMAIN writes :
         /\ writes[m] <= 1
         /\ m < 2 => writes[m] = 0
         /\ writes[m] = 1 =>
              /\ IsPrimeNumber(min_prime_factor_[m])
              /\ Divides(min_prime_factor_[m], m)
              /\ \A d \in 2..(min_prime_factor_[m] - 1) : ~Divides(d, m)
    /\ DOMAIN writes = 0..Limit
    /\ pc = "done" => \A m \in 2..Limit : writes[m] = 1

\* C9: the scan counter never wraps, and the scan visits each n of [2, L]
\* once, in ascending order: inside the scan the numbers below num have been
\* visited once, num at most once and the numbers above num not at all; on
\* completion each n of [2, L] has been visited exactly once.
C9_ScanTerminates ==
  Scanning =>
    /\ wraps = 0
    /\ \A n \in DOMAIN visits :
         /\ visits[n] <= 1
         /\ n < 2 => visits[n] = 0
         /\ (pc # "done" /\ n >= 2 /\ n < num) => visits[n] = 1
         /\ (pc # "done" /\ n > num) => visits[n] = 0
         /\ (pc = "done" /\ n >= 2) => visits[n] = 1

\* C5: every min_prime_factor(n) query on a constructed sieve ends in
\* DomainError when |n| <= 1, else in OutOfRange when |n| > L, else in the
\* stored factor of |n| (so -n and n give the same answer), and leaves the
\* limit, the factor array and the primes list as they were.
C5_Expected(q) ==
  LET a == IF q.arg < 0 THEN 0 - q.arg ELSE q.arg
  IN /\ (a <= 1) <=> (q.out = "domain_error")
     /\ (a > 1 /\ a > Limit) <=> (q.out = "out_of_range")
     /\ (a > 1 /\ a <= Limit) <=> (q.out = "value")
     /\ q.out = "value" =>
          /\ q.val = min_prime_factor_[a]
          /\ Euler_min_prime_factor(0 - q.arg) = [out |-> q.out, val |-> q.val]
C5_QueryOutcomes ==
  [][(qry'.fn = "min_prime_factor" /\ qry' # qry) =>
       /\ C5_Expected(qry')
       /\ UNCHANGED <<num_limit, min_prime_factor_, primes_>>]_vars

\* A query with a negative argument was answered with the factor 3.
C5_Witness ==
  /\ pc = "done" /\ qry.fn = "min_prime_factor"
  /\ qry.arg < 0 /\ qry.out = "value" /\ qry.val = 3

\* C6: a limit whose doubled bit width exceeds 64 makes the constructor fail
\* with OverflowError, no factor entry having been assigned and primes_ being
\* empty; a limit whose doubled bit width is at most 64 passes the guard.
C6_OverflowGuard ==
  pc \in {"alloc_error", "overflow_error", "e_outer", "e_inner", "done"} =>
    IF bit_width(num_limit) * 2 > MultTypeDigits
    THEN /\ pc = "overflow_error"
         /\ primes_ = <<>>
         /\ \A m \in DOMAIN writes : writes[m] = 0
    ELSE pc \notin {"alloc_error", "overflow_error"}

---------------------------------------------------------------------------
(* The sieve of Eratosthenes.                                              *)

\* On the constructed pair of sieves, is_prime(n) and min_prime_factor(n) = n
\* agree on [2, L].
SievesAgree ==
  \A n \in 2..Limit :
    /\ Sieve_is_prime(n).out = "value"
    /\ Euler_min_prime_factor(n).out = "value"
    /\ Sieve_is_prime(n).val = (Euler_min_prime_factor(n).val = n)

\* C3, as amended: Sieve(L) and EulerSieve(L) agree on every n of [2, L],
\* the outer loop of Sieve has stopped at the first i with i * i > L,
\* is_prime(0) is false, and is_prime(1) is false when L >= 1 and fails with
\* OutOfRange when L = 0.
C3_SievesAgree ==
  pc = "done" =>
    /\ SievesAgree
    /\ s_i * s_i > Limit /\ (s_i > 2 => (s_i - 1) * (s_i - 1) <= Limit)
    /\ Sieve_is_prime(0) = [out |-> "value", val |-> FALSE]
    /\ Limit >= 1 => Sieve_is_prime(1) = [out |-> "value", val |-> FALSE]
    /\ Limit = 0 => Sieve_is_prime(1).out = "out_of_range"

\* C3, as stated: ... and is_prime(0) and is_prime(1) are false for every
\* L >= 0.
C3_AsStated ==
  pc = "done" =>
    /\ SievesAgree
    /\ Sieve_is_prime(0) = [out |-> "value", val |-> FALSE]
    /\ Sieve_is_prime(1) = [out |-> "value", val |-> FALSE]

\* Both sieves of a limit of at least 16 are constructed (so that multiples
\* of 2 and 3 were struck from 4 and 9 on) and is_prime has confirmed a prime
\* above 9.
C3_Witness ==
  /\ pc = "done" /\ Limit >= 16
  /\ qry.fn = "is_prime" /\ qry.arg > 9 /\ qry.out = "value" /\ qry.flag = TRUE

\* C8: the flag array has L + 1 entries and no write of the constructor goes
\* past its end.
C8_WritesInBounds ==
  /\ s_oob = FALSE
  /\ pc \in {"s_clear0", "s_clear1", "s_outer", "s_inner"} =>
       DOMAIN is_prime_ = 0..Limit

---------------------------------------------------------------------------
(* coprime_pairs.                                                          *)

CoprimeSet(L) ==
  {<<x, y>> \in (0..L) \X (0..L) : y <= x /\ GCD(x, y) = 1}

\* C4: the result holds no pair twice and its elements are exactly the
\* pairs (x, y) with 0 <= y <= x <= L and gcd(x, y) = 1; it is empty for
\* L <= 0.
C4_ExactlyCoprimePairs ==
  cp_pc = "done" =>
    /\ \A j, k \in 1..Len(pairs) : pairs[j] = pairs[k] => j = k
    /\ Range(pairs) = CoprimeSet(cp_limit)
    /\ cp_limit <= 0 => pairs = <<>>

\* A call with a limit of at least 7 has returned (so pairs of both subtrees
\* and of depth two are in the result).
C4_Witness ==
  cp_pc = "done" /\ cp_limit >= 7 /\ <<7, 4>> \in Range(pairs)

\* C10, state part: entries of the work list have x > y >= 1 and x <= L, and
\* each child of an entry has a larger first component than the entry; the
\* cursor stays within the list; the boundary pairs are absent during the
\* loop and are the last two elements afterwards, the cursor having reached
\* the end of the work list.
C10_WorkList(n) ==
  \A k \in 1..n :
    LET x == pairs[k][1]
        y == pairs[k][2]
    IN /\ x > y /\ y >= 1 /\ x <= cp_limit
       /\ \A c \in 1..3 : Children(x, y)[c][1] > x
C10_State ==
  /\ cp_pc = "loop" => visited <= Len(pairs) /\ C10_WorkList(Len(pairs))
  /\ (cp_pc = "done" /\ cp_limit >= 1) =>
       /\ Len(pairs) >= 2
       /\ visited = Len(pairs) - 2
       /\ C10_WorkList(Len(pairs) - 2)
       /\ pairs[Len(pairs) - 1] = <<1, 0>>
       /\ pairs[Len(pairs)] = <<1, 1>>
\* C10, step part: a round of the loop moves the cursor on by one and only
\* appends to the list.
C10_Step ==
  (cp_pc = "loop" /\ cp_pc' = "loop") =>
    /\ visited' = visited + 1
    /\ Len(pairs') >= Len(pairs)
    /\ SubSeq(pairs', 1, Len(pairs)) = pairs
\* C10: for every L >= 1 the loop of coprime_pairs terminates, with the
\* state and step properties above.
C10_LoopTerminates ==
  /\ []C10_State
  /\ [][C10_Step]_vars
  /\ <>(cp_pc = "done")

\* A call with L >= 5 has returned after its cursor went over more than five
\* entries.
C10_Witness ==
  cp_pc = "done" /\ cp_limit >= 5 /\ visited > 5 /\ Len(pairs) = visited + 2

====
